---- MODULE Spec2Model ----
(***************************************************************************)
(* rebf: a tree-walking interpreter for an eight-instruction tape          *)
(* language.  The parser (src/utils/ast.rs) turns the program text into an *)
(* AST; the machine (src/utils/machine.rs) walks the AST over a tape of    *)
(* u8 cells.                                                               *)
(*                                                                         *)
(* Characters are one-character strings, a program text is a sequence of   *)
(* them.  The tape `memory` is a sequence, so the cell of index i of the   *)
(* Vec<u8> is memory[i + 1].  Bytes written to standard output are kept as *)
(* numbers 0..255.                                                         *)
(***************************************************************************)
EXTENDS Integers, Sequences, FiniteSets, TLC

VARIABLES
    program,    \* the program text handed to AST::from
    phase,      \* where main (or the parse/serialize driver) stands
    ast,        \* the tree AST::from returned
    text,       \* what Display for AST wrote
    pointer,    \* MachineState.pointer
    memory,     \* MachineState.memory
    stack,      \* the activations of MachineState::run, innermost last
    ret,        \* the io::Result the last finished activation returned
    stdout,     \* every byte written to standard output, in order
    printed,    \* history: the bytes among stdout that print() wrote
    last,       \* history: the step taken last and the state it started from
    highest,    \* history: the largest value the pointer has had
    parser,     \* AST::from taken step by step: the Chars iterator and the calls
    flat        \* the flat reference interpreter run beside MachineState::run

vars == <<program, phase, ast, text, pointer, memory, stack, ret, stdout, printed, last,
          highest, parser, flat>>

----------------------------------------------------------------------------
(* Bounds of the model. *)

\* longest program text of the exhaustive part of Programs
MaxLen == 3
\* longest program text of the exhaustive part of ParsePrograms
MaxParseLen == 4
\* longest program text of the few-character part of ParsePrograms
MaxNestLen == 7
\* the tape is not grown beyond this many cells
MaxTape == 5
\* nothing is written once standard output holds this many bytes
MaxOut == 13
\* longest tape whose snapshot is rendered in DumpSpec
MaxDumpTape == 33
\* longest program text of the few-character part of FromPrograms
MaxFromLen == 6

----------------------------------------------------------------------------
(* machine.rs: Operation and its character mapping. *)

Operations ==
    { "Move(Right)", "Move(Left)", "Change(Add)", "Change(Substract)",
      "Print", "Read", "Debug" }

\* mutant of value: the characters of Print and Read are exchanged
value_print_read_exchanged(op) ==
    CASE op = "Move(Right)"       -> ">"
      [] op = "Move(Left)"        -> "<"
      [] op = "Change(Add)"       -> "+"
      [] op = "Change(Substract)" -> "-"
      [] op = "Print"             -> ","
      [] op = "Read"              -> "."
      [] op = "Debug"             -> "#"

\* Operation::value
value(op) ==
    CASE op = "Move(Right)"       -> ">"
      [] op = "Move(Left)"        -> "<"
      [] op = "Change(Add)"       -> "+"
      [] op = "Change(Substract)" -> "-"
      [] op = "Print"             -> "."
      [] op = "Read"              -> ","
      [] op = "Debug"             -> "#"

\* Operation::from; "None" stands for Option::None
from(instr) ==
    CASE instr = ">" -> "Move(Right)"
      [] instr = "<" -> "Move(Left)"
      [] instr = "+" -> "Change(Add)"
      [] instr = "-" -> "Change(Substract)"
      [] instr = "." -> "Print"
      [] instr = "," -> "Read"
      [] instr = "#" -> "Debug"
      [] OTHER       -> "None"

----------------------------------------------------------------------------
(* ast.rs: the tree, its parser and its serializer. *)

EOF == [tag |-> "EOF"]

Instructions(operations, next) ==
    [tag |-> "Instructions", ops |-> operations, next |-> next]

Loop(body, next) ==
    [tag |-> "Loop", body |-> body, next |-> next]

\* mutant of box_if_not_empty: the run is boxed even when it is empty
box_if_not_empty_always(ops, tree) == Instructions(ops, tree)

\* mutant of box_if_not_empty: the accumulated run is dropped
box_if_not_empty_never(ops, tree) == tree

\* AST::box_if_not_empty
box_if_not_empty(ops, tree) ==
    IF Len(ops) # 0 THEN Instructions(ops, tree) ELSE tree

RECURSIVE from_loop(_, _)

\* mutant of from_loop: the continuation of a loop is parsed before its body
from_loop_next_first(chars, operations_vec) ==
    IF chars = <<>>
    THEN [ast |-> box_if_not_empty(operations_vec, EOF), rest |-> <<>>]
    ELSE LET instr == Head(chars)
             after == Tail(chars)
         IN  IF from(instr) # "None"
             THEN from_loop(after, Append(operations_vec, from(instr)))
             ELSE IF instr = "["
             THEN LET next == from_loop(after, <<>>)
                      body == from_loop(next.rest, <<>>)
                  IN  [ast  |-> box_if_not_empty(operations_vec,
                                                 Loop(body.ast, next.ast)),
                       rest |-> body.rest]
             ELSE IF instr = "]"
             THEN [ast |-> box_if_not_empty(operations_vec, EOF), rest |-> after]
             ELSE from_loop(after, operations_vec)

\* mutant of from_loop: a ']' is skipped like any unrecognized character
from_loop_no_break(chars, operations_vec) ==
    IF chars = <<>>
    THEN [ast |-> box_if_not_empty(operations_vec, EOF), rest |-> <<>>]
    ELSE LET instr == Head(chars)
             after == Tail(chars)
         IN  IF from(instr) # "None"
             THEN from_loop(after, Append(operations_vec, from(instr)))
             ELSE IF instr = "["
             THEN LET body == from_loop(after, <<>>)
                      next == from_loop(body.rest, <<>>)
                  IN  [ast  |-> box_if_not_empty(operations_vec,
                                                 Loop(body.ast, next.ast)),
                       rest |-> next.rest]
             ELSE from_loop(after, operations_vec)

\* mutant of from_loop: an unrecognized character ends the call like a ']'
from_loop_other_breaks(chars, operations_vec) ==
    IF chars = <<>>
    THEN [ast |-> box_if_not_empty(operations_vec, EOF), rest |-> <<>>]
    ELSE LET instr == Head(chars)
             after == Tail(chars)
         IN  IF from(instr) # "None"
             THEN from_loop(after, Append(operations_vec, from(instr)))
             ELSE IF instr = "["
             THEN LET body == from_loop(after, <<>>)
                      next == from_loop(body.rest, <<>>)
                  IN  [ast  |-> box_if_not_empty(operations_vec,
                                                 Loop(body.ast, next.ast)),
                       rest |-> next.rest]
             ELSE [ast |-> box_if_not_empty(operations_vec, EOF), rest |-> after]

\* AST::from.  The Chars iterator is the sequence of characters not yet
\* consumed; the result pairs the tree with what the iterator still holds
\* when the call returns.  from_loop is the while-let loop with its
\* accumulated operations_vec.
from_loop(chars, operations_vec) ==
    IF chars = <<>>
    THEN [ast |-> box_if_not_empty(operations_vec, EOF), rest |-> <<>>]
    ELSE LET instr == Head(chars)
             after == Tail(chars)
         IN  IF from(instr) # "None"
             THEN from_loop(after, Append(operations_vec, from(instr)))
             ELSE IF instr = "["
             THEN LET body == from_loop(after, <<>>)
                      next == from_loop(body.rest, <<>>)
                  IN  [ast  |-> box_if_not_empty(operations_vec,
                                                 Loop(body.ast, next.ast)),
                       rest |-> next.rest]
             ELSE IF instr = "]"
             THEN [ast |-> box_if_not_empty(operations_vec, EOF), rest |-> after]
             ELSE from_loop(after, operations_vec)

AST_from(chars) == from_loop(chars, <<>>)

\* AST::from_string
from_string(str) == AST_from(str).ast

\* the for loop of Display for AST over the operations of a run
RECURSIVE fmt_ops(_)
fmt_ops(operations) ==
    IF operations = <<>> THEN <<>>
    ELSE <<value(Head(operations))>> \o fmt_ops(Tail(operations))

\* impl fmt::Display for AST
RECURSIVE AST_fmt(_)
AST_fmt(tree) ==
    CASE tree.tag = "Instructions" -> fmt_ops(tree.ops) \o AST_fmt(tree.next)
      [] tree.tag = "Loop" -> <<"[">> \o AST_fmt(tree.body) \o <<"]">> \o AST_fmt(tree.next)
      [] tree.tag = "EOF" -> <<>>

----------------------------------------------------------------------------
(* machine.rs: MachineState.  A machine m is [pointer, memory]. *)

\* MachineState::new
new == [pointer |-> 0, memory |-> <<0>>]

\* MachineState::get_current (through Index<usize>)
get_current(m) == m.memory[m.pointer + 1]

\* IndexMut<usize>: self[index] = v
set_cell(m, index, v) == [m EXCEPT !.memory[index + 1] = v]

\* mutant of pointer_move: moving right never pushes a cell
pointer_move_no_push(m, direction) ==
    IF direction = "Left"
    THEN IF m.pointer # 0 THEN [m EXCEPT !.pointer = m.pointer - 1] ELSE m
    ELSE [m EXCEPT !.pointer = m.pointer + 1]

\* mutant of pointer_move: moving right always pushes a cell
pointer_move_always_push(m, direction) ==
    IF direction = "Left"
    THEN IF m.pointer # 0 THEN [m EXCEPT !.pointer = m.pointer - 1] ELSE m
    ELSE [pointer |-> m.pointer + 1, memory |-> Append(m.memory, 0)]

\* mutant of pointer_move: moving left does not test for the left end
pointer_move_unguarded(m, direction) ==
    IF direction = "Left"
    THEN [m EXCEPT !.pointer = m.pointer - 1]
    ELSE LET moved == [m EXCEPT !.pointer = m.pointer + 1]
         IN  IF moved.pointer = Len(moved.memory)
             THEN [moved EXCEPT !.memory = Append(moved.memory, 0)]
             ELSE moved

\* mutant of pointer_move: at the right end two cells are pushed
pointer_move_push_two(m, direction) ==
    IF direction = "Left"
    THEN IF m.pointer # 0 THEN [m EXCEPT !.pointer = m.pointer - 1] ELSE m
    ELSE LET moved == [m EXCEPT !.pointer = m.pointer + 1]
         IN  IF moved.pointer = Len(moved.memory)
             THEN [moved EXCEPT !.memory = moved.memory \o <<0, 0>>]
             ELSE moved

\* MachineState::pointer_move
pointer_move(m, direction) ==
    IF direction = "Left"
    THEN IF m.pointer # 0 THEN [m EXCEPT !.pointer = m.pointer - 1] ELSE m
    ELSE LET moved == [m EXCEPT !.pointer = m.pointer + 1]
         IN  IF moved.pointer = Len(moved.memory)
             THEN [moved EXCEPT !.memory = Append(moved.memory, 0)]
             ELSE moved

\* mutant of change: the cell saturates at 255 and at 0
change_saturating(m, operation) ==
    IF operation = "Add"
    THEN IF get_current(m) = 255
         THEN m
         ELSE set_cell(m, m.pointer, get_current(m) + 1)
    ELSE IF get_current(m) = 0
         THEN m
         ELSE set_cell(m, m.pointer, get_current(m) - 1)

\* MachineState::change
change(m, operation) ==
    IF operation = "Add"
    THEN IF get_current(m) = 255
         THEN set_cell(m, m.pointer, 0)
         ELSE set_cell(m, m.pointer, get_current(m) + 1)
    ELSE IF get_current(m) = 0
         THEN set_cell(m, m.pointer, 255)
         ELSE set_cell(m, m.pointer, get_current(m) - 1)

\* `u8 as char` written with "{}": the char U+0000..U+00FF goes out in UTF-8,
\* one byte below 0x80 and two bytes from 0x80 on
char_utf8(v) ==
    IF v < 128 THEN <<v>> ELSE <<192 + (v \div 64), 128 + (v % 64)>>

\* MachineState::print: the bytes print! hands to standard output
print(m) == char_utf8(get_current(m))

\* What io::stdin().read(&mut input) can answer for a one-byte buffer:
\* Ok(1) with the byte stored, Ok(0) at end of input (buffer untouched), Err
InBytes == {0, 1, 255}

ReadResults ==
    {[kind |-> "Ok", n |-> 1, byte |-> b] : b \in InBytes}
        \cup {[kind |-> "Ok", n |-> 0, byte |-> 0], [kind |-> "Err", n |-> 0, byte |-> 0]}

\* mutant of read: the cell is stored only when a byte was read
read_if_any(m, r) ==
    IF r.kind = "Err"
    THEN [res |-> "Err", m |-> m]
    ELSE IF r.n = 1
         THEN [res |-> "Ok", m |-> set_cell(m, m.pointer, r.byte)]
         ELSE [res |-> "Ok", m |-> m]

\* MachineState::read: input starts as [0]; `?` returns the error before the
\* cell is touched
read(m, r) ==
    IF r.kind = "Err"
    THEN [res |-> "Err", m |-> m]
    ELSE LET input == IF r.n = 1 THEN <<r.byte>> ELSE <<0>>
         IN  [res |-> "Ok", m |-> set_cell(m, m.pointer, input[1])]

\* {:02X} of a u8
hex_digit(d) == IF d < 10 THEN 48 + d ELSE 55 + d

hex02(v) == <<hex_digit(v \div 16), hex_digit(v % 16)>>

\* impl fmt::Display for MachineState, from the cell of index `index` on
RECURSIVE MachineState_fmt_from(_, _)
MachineState_fmt_from(m, index) ==
    IF index >= Len(m.memory) THEN <<>>
    ELSE <<32>> \o hex02(m.memory[index + 1]) \o <<32>>
            \o (IF index = m.pointer THEN <<60>> ELSE <<32>>) \o <<32>>
            \o (IF index % 15 = 0 /\ index # 0 THEN <<10>> ELSE <<>>)
            \o MachineState_fmt_from(m, index + 1)

MachineState_fmt(m) == MachineState_fmt_from(m, 0)

\* println!("{}", self): the bytes the Debug arm hands to standard output
debug(m) == MachineState_fmt(m) \o <<10>>

\* MachineState::apply with the answer r of standard input, should the
\* instruction read: the io::Result, the machine afterwards, and the bytes
\* written to standard output by print and by the Debug arm
apply(m, instr, r) ==
    CASE instr \in {"Move(Right)", "Move(Left)"} ->
            [res |-> "Ok", out |-> <<>>, dump |-> <<>>,
             m |-> pointer_move(m, IF instr = "Move(Right)" THEN "Right" ELSE "Left")]
      [] instr \in {"Change(Add)", "Change(Substract)"} ->
            [res |-> "Ok", out |-> <<>>, dump |-> <<>>,
             m |-> change(m, IF instr = "Change(Add)" THEN "Add" ELSE "Substract")]
      [] instr = "Print" ->
            [res |-> "Ok", out |-> print(m), dump |-> <<>>, m |-> m]
      [] instr = "Read" ->
            [res |-> read(m, r).res, out |-> <<>>, dump |-> <<>>, m |-> read(m, r).m]
      [] instr = "Debug" ->
            [res |-> "Ok", out |-> <<>>, dump |-> debug(m), m |-> m]

----------------------------------------------------------------------------
(* The inputs. *)

InstructionChars == {">", "<", "+", "-", ".", ",", "#"}

\* every string over `alphabet` of at most n characters
Strings(alphabet, n) == UNION {[1..k -> alphabet] : k \in 0..n}

\* a loop entered with a cell that one instruction may have made nonzero,
\* around one instruction and followed by one: c [ x ] y
LoopPrograms ==
    { <<c, "[", x, "]", y>> : c \in {"+", "-", ","}, x \in InstructionChars,
                              y \in InstructionChars }

\* longer programs: loops that nest, move, read, print and dump
Scenarios ==
    { <<",", "[", ".", ",", "]", "#">>,
      <<"+", "[", ">", "+", "]">>,
      <<"+", "[", "-", "]", ".", "[", "+", "]">>,
      <<"+", "+", "[", "-", ">", "+", "<", "]", ">", ".">>,
      <<"-", "[", "[", "-", "]", ",", "]", "<", "+">>,
      <<"+", "[", "#", ">", "-", ".", "]">> }

\* the programs the machine is run on
Programs ==
    Strings(InstructionChars \cup {"[", "]"}, MaxLen) \cup LoopPrograms \cup Scenarios

----------------------------------------------------------------------------
(* The run of main: parse, then MachineState::run as a stack of            *)
(* activations.  An activation is [ast, at, i]: its node, where it stands  *)
(* ("ops": the for loop, before operations[i]; "cond": the while test;     *)
(* "body" / "next": inside self.run(body) / self.run(next); "eof": the EOF *)
(* arm).                                                                   *)

activation(tree) ==
    [ast |-> tree,
     at  |-> CASE tree.tag = "Instructions" -> "ops"
               [] tree.tag = "Loop"         -> "cond"
               [] tree.tag = "EOF"          -> "eof",
     i   |-> 1]

machine == [pointer |-> pointer, memory |-> memory]

top == stack[Len(stack)]

pop == SubSeq(stack, 1, Len(stack) - 1)

replace_top(a) == [stack EXCEPT ![Len(stack)] = a]

NoRead == [kind |-> "None", n |-> 0, byte |-> 0]

\* the history record of a step, taken before the step changes anything
step(name, op, r) ==
    [step |-> name, op |-> op, r |-> r,
     pointer |-> pointer, memory |-> memory, stdout |-> stdout]

\* the parser before AST::from is called: the iterator stands before chars[1],
\* no call is active; yielded[k] counts how often next() gave chars[k],
\* built[k] is the tree of the call that met the '[' chars[k], calls counts
\* the calls of next(), made counts the calls of AST::from
parser_new(chars) ==
    [pos |-> 1, frames |-> <<>>, ret |-> [tag |-> "none"], calls |-> 0, made |-> 0,
     yielded |-> [k \in 1..Len(chars) |-> 0],
     built |-> [k \in 1..Len(chars) |-> [tag |-> "none"]]]

\* the bracket depth after chars, starting at depth; -1 once a ']' closes
\* nothing
RECURSIVE bracket_depth(_, _)
bracket_depth(chars, depth) ==
    IF depth < 0 \/ chars = <<>> THEN depth
    ELSE bracket_depth(Tail(chars),
                       CASE Head(chars) = "[" -> depth + 1
                         [] Head(chars) = "]" -> depth - 1
                         [] OTHER -> depth)

\* only the 7 instruction characters and properly matched brackets
well_formed(chars) ==
    /\ \A k \in 1..Len(chars) : chars[k] \in InstructionChars \cup {"[", "]"}
    /\ bracket_depth(chars, 0) = 0

\* the reference interpreter before its first step: a fresh machine, the
\* program counter on the first character, nothing executed yet
flat_new ==
    [pc |-> 1, pointer |-> 0, memory |-> <<0>>, stdout |-> <<>>, res |-> "none",
     did |-> ""]

\* the index of the ']' that matches the '[' chars[k]
matching_close(chars, k) ==
    CHOOSE j \in (k + 1)..Len(chars) :
        /\ bracket_depth(SubSeq(chars, k, j), 0) = 0
        /\ \A i \in (k + 1)..(j - 1) : bracket_depth(SubSeq(chars, k, i), 0) # 0

\* the index of the '[' that matches the ']' chars[k]
matching_open(chars, k) ==
    CHOOSE j \in 1..(k - 1) : chars[j] = "[" /\ matching_close(chars, j) = k

\* one step of the reference interpreter on the text chars: the
\* instruction under the program counter is executed on its own machine
\* and the counter moves on; '[' jumps past the matching ']' when the
\* current cell is 0, ']' jumps back behind the matching '[' when it is not
flat_step(chars, f, r) ==
    IF f.res # "none" \/ f.pc > Len(chars) THEN f
    ELSE LET c == chars[f.pc]
             m == [pointer |-> f.pointer, memory |-> f.memory]
         IN  CASE c = "[" ->
                    [f EXCEPT !.pc = IF get_current(m) = 0
                                     THEN matching_close(chars, f.pc) + 1
                                     ELSE f.pc + 1,
                              !.did = c]
               [] c = "]" ->
                    [f EXCEPT !.pc = IF get_current(m) # 0
                                     THEN matching_open(chars, f.pc) + 1
                                     ELSE f.pc + 1,
                              !.did = c]
               [] OTHER ->
                    LET a == apply(m, from(c), r)
                    IN  [pc |-> IF a.res = "Ok" THEN f.pc + 1 ELSE f.pc,
                         pointer |-> a.m.pointer,
                         memory |-> a.m.memory,
                         stdout |-> f.stdout \o a.out \o a.dump,
                         res |-> IF a.res = "Ok" THEN "none" ELSE "Err",
                         did |-> c]

\* the reference interpreter follows the run on programs of matched brackets
flat_follows(r) ==
    flat' = IF well_formed(program) THEN flat_step(program, flat, r) ELSE flat

Init ==
    /\ program \in Programs
    /\ phase = "start"
    /\ ast = EOF
    /\ text = <<>>
    /\ pointer = new.pointer
    /\ memory = new.memory
    /\ stack = <<>>
    /\ ret = "none"
    /\ stdout = <<>>
    /\ printed = <<>>
    /\ last = step("none", "", NoRead)
    /\ highest = new.pointer
    /\ parser = parser_new(program)
    /\ flat = flat_new

\* main.rs: AST::from(&mut instructions.chars()), then machine.run(&ast)
main ==
    /\ phase = "start"
    /\ phase' = "run"
    /\ ast' = AST_from(program).ast
    /\ stack' = <<activation(ast')>>
    /\ last' = step("main", "", NoRead)
    /\ UNCHANGED <<highest, parser, flat, program, text, pointer, memory, ret, stdout, printed>>

running == phase = "run" /\ stack # <<>> /\ ret = "none"

\* run, Instructions arm: self.apply(op)? for the next op of the for loop
run_apply ==
    /\ running
    /\ top.at = "ops"
    /\ top.i <= Len(top.ast.ops)
    /\ LET op == top.ast.ops[top.i]
       IN  \E r \in (IF op = "Read" THEN ReadResults ELSE {NoRead}) :
             LET a == apply(machine, op, r)
             IN  /\ Len(a.m.memory) <= MaxTape
                 /\ Len(stdout) + Len(a.out) + Len(a.dump) <= MaxOut
                 /\ pointer' = a.m.pointer
                 /\ memory' = a.m.memory
                 /\ stdout' = stdout \o a.out \o a.dump
                 /\ printed' = printed \o a.out
                 /\ IF a.res = "Ok"
                    THEN /\ stack' = replace_top([top EXCEPT !.i = top.i + 1])
                         /\ ret' = ret
                    ELSE /\ stack' = pop
                         /\ ret' = "Err"
                 /\ last' = step("apply", op, r)
                 /\ highest' = IF a.m.pointer > highest THEN a.m.pointer ELSE highest
                 /\ flat_follows(r)
    /\ UNCHANGED <<parser, program, phase, ast, text>>

\* run, Instructions arm: self.run(next) once the for loop is over
run_next ==
    /\ running
    /\ top.at = "ops"
    /\ top.i > Len(top.ast.ops)
    /\ stack' = Append(replace_top([top EXCEPT !.at = "next"]), activation(top.ast.next))
    /\ last' = step("next", "", NoRead)
    /\ UNCHANGED <<highest, parser, flat, program, phase, ast, text, pointer, memory, ret, stdout, printed>>

\* mutant of loop_test: the while test reads the first cell of the tape
loop_test_first_cell(m) == m.memory[1] # 0

\* mutant of loop_test: the while test is inverted
loop_test_inverted(m) == get_current(m) = 0

\* what the while test of the Loop arm decides
loop_test(m) == get_current(m) # 0

\* run, Loop arm: the while test holds, self.run(body)
loop_body ==
    /\ running
    /\ top.at = "cond"
    /\ loop_test(machine)
    /\ stack' = Append(replace_top([top EXCEPT !.at = "body"]), activation(top.ast.body))
    /\ last' = step("body", "", NoRead)
    /\ flat_follows(NoRead)
    /\ UNCHANGED <<highest, parser, program, phase, ast, text, pointer, memory, ret, stdout, printed>>

\* run, Loop arm: the while test fails, self.run(next)
loop_exit ==
    /\ running
    /\ top.at = "cond"
    /\ ~loop_test(machine)
    /\ stack' = Append(replace_top([top EXCEPT !.at = "next"]), activation(top.ast.next))
    /\ last' = step("exit", "", NoRead)
    /\ flat_follows(NoRead)
    /\ UNCHANGED <<highest, parser, program, phase, ast, text, pointer, memory, ret, stdout, printed>>

\* run, EOF arm: Ok(&self.memory)
run_eof ==
    /\ running
    /\ top.at = "eof"
    /\ stack' = pop
    /\ ret' = "Ok"
    /\ last' = step("eof", "", NoRead)
    /\ UNCHANGED <<highest, parser, flat, program, phase, ast, text, pointer, memory, stdout, printed>>

\* mutant of after_call: the Loop arm runs its body once, like an `if`
after_call_body_once(caller, res) == "return"

\* mutant of after_call: self.run(body) without the `?`
after_call_no_question_mark(caller, res) ==
    IF caller.at = "body" THEN "again" ELSE "return"

\* what a caller does with the io::Result `res` of the activation it waited
\* for: self.run(next) is the value of the arm, so the caller returns it;
\* self.run(body)? returns an Err and goes back to the while test on Ok
after_call(caller, res) ==
    IF caller.at = "body" /\ res = "Ok" THEN "again" ELSE "return"

\* the caller of an activation that returned goes on
run_return ==
    /\ phase = "run"
    /\ stack # <<>>
    /\ ret # "none"
    /\ IF after_call(top, ret) = "again"
       THEN /\ stack' = replace_top([top EXCEPT !.at = "cond"])
            /\ ret' = "none"
       ELSE /\ stack' = pop
            /\ ret' = ret
    /\ last' = step("return", "", NoRead)
    /\ UNCHANGED <<highest, parser, flat, program, phase, ast, text, pointer, memory, stdout, printed>>

Next == main \/ run_apply \/ run_next \/ loop_body \/ loop_exit \/ run_eof \/ run_return

Spec == Init /\ [][Next]_vars

----------------------------------------------------------------------------
(* The parser and the serializer on their own: AST::from_string on a text, *)
(* then Display on the tree it returned.                                   *)

\* a character that is neither an instruction nor a bracket
Ignored == "x"

\* the texts parsed: every short text over the whole alphabet, and longer
\* ones over a few characters, where brackets nest and interleave
ParsePrograms ==
    Strings(InstructionChars \cup {"[", "]", Ignored}, MaxParseLen)
        \cup Strings({"+", "[", "]", Ignored}, MaxNestLen)

ParseInit ==
    /\ program \in ParsePrograms
    /\ phase = "start"
    /\ ast = EOF
    /\ text = <<>>
    /\ pointer = new.pointer
    /\ memory = new.memory
    /\ stack = <<>>
    /\ ret = "none"
    /\ stdout = <<>>
    /\ printed = <<>>
    /\ last = step("none", "", NoRead)
    /\ highest = new.pointer
    /\ parser = parser_new(program)
    /\ flat = flat_new

\* AST::from_string(program)
parse ==
    /\ phase = "start"
    /\ phase' = "parsed"
    /\ ast' = from_string(program)
    /\ UNCHANGED <<highest, parser, flat, program, text, pointer, memory, stack, ret, stdout, printed, last>>

\* format!("{}", ast)
serialize ==
    /\ phase = "parsed"
    /\ phase' = "shown"
    /\ text' = AST_fmt(ast)
    /\ UNCHANGED <<highest, parser, flat, program, ast, pointer, memory, stack, ret, stdout, printed, last>>

ParseNext == parse \/ serialize

ParseSpec == ParseInit /\ [][ParseNext]_vars

----------------------------------------------------------------------------
(* Properties of Spec and of ParseSpec. *)

\* the last step applied instruction op
applied(op) == last.step = "apply" /\ last.op = op

\* the cell under the pointer when the last step began
last_cell == last.memory[last.pointer + 1]

\* some activation on the stack is a loop running its body
in_loop_body == \E k \in 1..Len(stack) : stack[k].at = "body"

\* C1: in every state of every run the tape holds at least one cell and the
\* pointer is the index of a cell, so the current cell is in bounds.
C1_PointerInTape ==
    /\ Len(memory) >= 1
    /\ pointer \in 0..(Len(memory) - 1)
    /\ pointer + 1 \in DOMAIN memory

\* C1 witness: inside a loop body, a move right has just grown the tape to
\* three cells or more
C1_Witness ==
    /\ in_loop_body
    /\ applied("Move(Right)")
    /\ Len(memory) >= 3
    /\ Len(memory) = Len(last.memory) + 1
    /\ pointer = Len(memory) - 1

\* C2 (ParseSpec): a text of instruction characters and properly matched
\* brackets, parsed and then serialized, comes back character for character.
C2_RoundTrip ==
    (phase = "shown" /\ well_formed(program)) => text = program

\* C2 witness: a run, then a loop nested in a loop, then a run, serialized
C2_Witness ==
    /\ phase = "shown"
    /\ well_formed(program)
    /\ Len(program) >= 7
    /\ ast.tag = "Instructions"
    /\ ast.next.tag = "Loop"
    /\ ast.next.body.tag = "Loop"
    /\ ast.next.body.body.tag = "Instructions"
    /\ ast.next.next.tag = "Instructions"

\* C3: a while test taken with the current cell at 0 never runs the body: it
\* changes neither pointer, tape nor output and starts the continuation of
\* the loop; and the run of `[]` never runs a body, leaves the fresh tape as
\* it is and does not fail.
C3_LoopSkipsAtZero ==
    /\ (last.step \in {"body", "exit"} /\ last_cell = 0) =>
          /\ last.step = "exit"
          /\ pointer = last.pointer
          /\ memory = last.memory
          /\ stdout = last.stdout
          /\ Len(stack) >= 2
          /\ stack[Len(stack) - 1].ast.tag = "Loop"
          /\ stack[Len(stack) - 1].at = "next"
          /\ top = activation(stack[Len(stack) - 1].ast.next)
    /\ program = <<"[", "]">> =>
          /\ last.step # "body"
          /\ pointer = 0
          /\ memory = <<0>>
          /\ stdout = <<>>
          /\ ret # "Err"

\* C3 witness: the run of `[]` is over, with Ok and the tape untouched
C3_Witness ==
    /\ program = <<"[", "]">>
    /\ phase = "run"
    /\ stack = <<>>
    /\ ret = "Ok"
    /\ memory = <<0>>
    /\ pointer = 0

\* C4: Increment leaves (v + 1) mod 256 and Decrement (v - 1) mod 256 in the
\* current cell, without failing, and they change nothing else: not the
\* pointer, not the length of the tape, no other cell.
C4_ChangeWraps ==
    /\ applied("Change(Add)") =>
          /\ memory = [last.memory EXCEPT ![last.pointer + 1] = (last_cell + 1) % 256]
          /\ pointer = last.pointer
          /\ ret = "none"
    /\ applied("Change(Substract)") =>
          /\ memory = [last.memory EXCEPT ![last.pointer + 1] = (last_cell - 1) % 256]
          /\ pointer = last.pointer
          /\ ret = "none"

\* C4 witness: `-+` is over: 0 - 1 gave 255, and 255 + 1 has just given 0
C4_Witness ==
    /\ program = <<"-", "+">>
    /\ applied("Change(Add)")
    /\ last_cell = 255
    /\ memory = <<0>>

\* the last step was a Read that found standard input exhausted
read_at_end_of_input ==
    applied("Read") /\ last.r.kind = "Ok" /\ last.r.n = 0

\* C5 as stated: a Read on exhausted input leaves the current cell at the
\* value it had, and the run goes on.
C5_ReadAtEndKeepsCell ==
    read_at_end_of_input =>
        /\ memory[pointer + 1] = last_cell
        /\ ret = "none"

\* C5 as amended: a Read on exhausted input sets the current cell to 0,
\* whatever it held, changes nothing else, and the run goes on.
C5_ReadAtEndZeroesCell ==
    read_at_end_of_input =>
        /\ memory = [last.memory EXCEPT ![last.pointer + 1] = 0]
        /\ pointer = last.pointer
        /\ stdout = last.stdout
        /\ ret = "none"

\* C5 witness: a cell holding 255 was read into on exhausted input
C5_Witness ==
    /\ read_at_end_of_input
    /\ last_cell = 255
    /\ memory[pointer + 1] = 0

\* C6 as stated: a Print appends exactly one byte to standard output, the
\* value of the current cell.
C6_PrintOneByte ==
    applied("Print") => stdout = Append(last.stdout, last_cell)

\* C7: a MoveRight from the rightmost cell adds 1 to the pointer and appends
\* one zero cell, the cells before it unchanged; a MoveRight from any other
\* cell adds 1 to the pointer and leaves the tape as it is.
C7_MoveRight ==
    applied("Move(Right)") =>
        /\ pointer = last.pointer + 1
        /\ IF last.pointer = Len(last.memory) - 1
           THEN memory = Append(last.memory, 0)
           ELSE memory = last.memory

\* C7 witness: a move right inside the tape, over a tape with a nonzero cell
C7_Witness ==
    /\ applied("Move(Right)")
    /\ last.pointer + 1 < Len(last.memory)
    /\ \E k \in 1..Len(memory) : memory[k] # 0

\* C8: a MoveLeft at pointer 0 leaves the pointer at 0, from pointer > 0 it
\* takes 1 from the pointer; in both cases the tape stays as it is.
C8_MoveLeft ==
    applied("Move(Left)") =>
        /\ pointer = IF last.pointer = 0 THEN 0 ELSE last.pointer - 1
        /\ memory = last.memory

\* C8 witness: a move left at pointer 0, the cell there nonzero
C8_Witness ==
    /\ applied("Move(Left)")
    /\ last.pointer = 0
    /\ pointer = 0
    /\ memory[1] # 0

\* C9 as stated: the channel print writes to holds the bytes print wrote and
\* nothing else, so no byte of a DebugDump.
C9_OutputOnlyPrinted ==
    stdout = printed

\* C10: a step that raises an I/O error changes neither pointer nor tape nor
\* output and ends the activation it is in; from then on every step ends
\* one more activation with the same error and changes nothing of the
\* machine: no instruction, no loop body, no continuation runs.
C10_ReadErrorAborts ==
    [][ /\ (last'.step = "apply" /\ last'.r.kind = "Err") => ret' = "Err"
        /\ ret' = "Err" =>
              /\ pointer' = pointer
              /\ memory' = memory
              /\ stdout' = stdout
              /\ stack' = SubSeq(stack, 1, Len(stack) - 1)
        /\ ret = "Err" => ret' = "Err" ]_vars

\* C10 witness: `-[,]+` ended with the error a Read raised in the loop body,
\* the cell still 255
C10_Witness ==
    /\ program = <<"-", "[", ",", "]", "+">>
    /\ stack = <<>>
    /\ ret = "Err"
    /\ memory = <<255>>
    /\ pointer = 0


----------------------------------------------------------------------------
(* The snapshot of the Debug arm on its own: println!("{}", self) on a     *)
(* machine with a longer tape than the runs of Spec reach.                 *)

\* cell values of the tapes rendered: both hex digits a digit, both a letter,
\* one of each
DumpBytes == {0, 9, 171, 255}

\* the machines rendered: every length up to MaxDumpTape, the pointer on any
\* cell, one value in the cell under the pointer and one in all the others
DumpMachines ==
    { [pointer |-> p, memory |-> [k \in 1..n |-> IF k = p + 1 THEN w ELSE v]] :
        n \in 1..MaxDumpTape, p \in 0..(MaxDumpTape - 1), v \in DumpBytes, w \in DumpBytes }

DumpInit ==
    /\ \E m \in DumpMachines :
          /\ m.pointer < Len(m.memory)
          /\ pointer = m.pointer
          /\ memory = m.memory
    /\ program = <<>>
    /\ phase = "start"
    /\ ast = EOF
    /\ text = <<>>
    /\ stack = <<>>
    /\ ret = "none"
    /\ stdout = <<>>
    /\ printed = <<>>
    /\ last = step("none", "", NoRead)
    /\ highest = Len(memory) - 1
    /\ parser = parser_new(program)
    /\ flat = flat_new

\* apply(&Operation::Debug) on the machine
dump ==
    /\ phase = "start"
    /\ phase' = "dumped"
    /\ stdout' = stdout \o apply(machine, "Debug", NoRead).dump
    /\ last' = step("apply", "Debug", NoRead)
    /\ UNCHANGED <<highest, parser, flat, program, ast, text, pointer, memory, stack, ret, printed>>

DumpNext == dump

DumpSpec == DumpInit /\ [][DumpNext]_vars

----------------------------------------------------------------------------
(* AST::from call by call and character by character.  parser.pos is the   *)
(* index of the character the Chars iterator yields next, parser.frames    *)
(* the active calls of AST::from, innermost last.  A call is [ops, at,     *)
(* open, body]: its operations_vec, where it stands ("loop": the while-let *)
(* loop; "body" / "next": inside the first / second AST::from of the '['   *)
(* arm), the index of the '[' it met and the tree of the body once parsed. *)
(* parser.ret is the tree a call has returned and its caller has not yet   *)
(* taken.                                                                  *)

NoTree == [tag |-> "none"]

\* the texts parsed step by step
FromPrograms ==
    Strings(InstructionChars \cup {"[", "]", Ignored}, MaxLen)
        \cup Strings({"+", "[", "]", Ignored}, MaxFromLen)

from_call == [ops |-> <<>>, at |-> "loop", open |-> 0, body |-> NoTree]

\* mutant of chars_next: a ']' is looked at but left in the iterator
chars_next_leaves_close(chars, pos) ==
    IF pos <= Len(chars)
    THEN [item |-> chars[pos], pos |-> IF chars[pos] = "]" THEN pos ELSE pos + 1]
    ELSE [item |-> "None", pos |-> pos]

\* Chars::next: the character at pos and the iterator moved past it, or None
chars_next(chars, pos) ==
    IF pos <= Len(chars)
    THEN [item |-> chars[pos], pos |-> pos + 1]
    ELSE [item |-> "None", pos |-> pos]

FromInit ==
    /\ program \in FromPrograms
    /\ phase = "start"
    /\ ast = EOF
    /\ text = <<>>
    /\ pointer = new.pointer
    /\ memory = new.memory
    /\ stack = <<>>
    /\ ret = "none"
    /\ stdout = <<>>
    /\ printed = <<>>
    /\ last = step("none", "", NoRead)
    /\ highest = new.pointer
    /\ parser = parser_new(program)
    /\ flat = flat_new

\* AST::from(&mut program.chars()) is called
from_enter ==
    /\ phase = "start"
    /\ phase' = "parsing"
    /\ parser' = [parser EXCEPT !.frames = <<from_call>>, !.made = 1]
    /\ UNCHANGED <<highest, flat, program, ast, text, pointer, memory, stack, ret,
                   stdout, printed, last>>

\* the innermost call returns tree
from_returns(p, tree) ==
    LET call == p.frames[Len(p.frames)]
    IN  [p EXCEPT !.frames = SubSeq(p.frames, 1, Len(p.frames) - 1),
                  !.ret = tree,
                  !.built = IF call.open = 0 THEN p.built
                            ELSE [p.built EXCEPT ![call.open] = tree]]

\* one turn of `while let Some(instr) = program.next()` in the innermost call
from_next ==
    /\ phase = "parsing"
    /\ parser.frames # <<>>
    /\ parser.ret.tag = "none"
    /\ parser.frames[Len(parser.frames)].at = "loop"
    /\ LET n == Len(parser.frames)
           call == parser.frames[n]
           got == chars_next(program, parser.pos)
           taken == [parser EXCEPT
                      !.pos = got.pos,
                      !.calls = parser.calls + 1,
                      !.yielded = IF got.item = "None" THEN parser.yielded
                                  ELSE [parser.yielded EXCEPT ![parser.pos] = @ + 1]]
       IN  parser' =
             IF got.item = "None"
             THEN from_returns(taken, box_if_not_empty(call.ops, EOF))
             ELSE IF from(got.item) # "None"
             THEN [taken EXCEPT !.frames[n].ops = Append(call.ops, from(got.item))]
             ELSE IF got.item = "["
             THEN [taken EXCEPT
                     !.frames = Append([taken.frames EXCEPT ![n].at = "body",
                                                           ![n].open = parser.pos],
                                       from_call),
                     !.made = taken.made + 1]
             ELSE IF got.item = "]"
             THEN from_returns(taken, box_if_not_empty(call.ops, EOF))
             ELSE taken
    /\ UNCHANGED <<highest, flat, program, phase, ast, text, pointer, memory, stack, ret,
                   stdout, printed, last>>

\* the '[' arm goes on with the tree a call it made has returned: after the
\* body it calls AST::from again for the continuation, after the
\* continuation it returns the boxed Loop
from_resume ==
    /\ phase = "parsing"
    /\ parser.frames # <<>>
    /\ parser.ret.tag # "none"
    /\ LET n == Len(parser.frames)
           call == parser.frames[n]
           taken == [parser EXCEPT !.ret = NoTree]
       IN  parser' =
             IF call.at = "body"
             THEN [taken EXCEPT
                     !.frames = Append([taken.frames EXCEPT ![n].at = "next",
                                                            ![n].body = parser.ret],
                                       from_call),
                     !.made = taken.made + 1]
             ELSE from_returns(taken, box_if_not_empty(call.ops,
                                                       Loop(call.body, parser.ret)))
    /\ UNCHANGED <<highest, flat, program, phase, ast, text, pointer, memory, stack, ret,
                   stdout, printed, last>>

\* the outermost call has returned: its tree is the AST
from_done ==
    /\ phase = "parsing"
    /\ parser.frames = <<>>
    /\ parser.ret.tag # "none"
    /\ phase' = "parsed"
    /\ ast' = parser.ret
    /\ UNCHANGED <<highest, parser, flat, program, text, pointer, memory, stack, ret,
                   stdout, printed, last>>

FromNext == from_enter \/ from_next \/ from_resume \/ from_done

FromSpec == FromInit /\ [][FromNext]_vars

----------------------------------------------------------------------------
(* Properties, continued. *)

\* the first n characters of chars
prefix(chars, n) == SubSeq(chars, 1, n)

\* C12 (ParseSpec): a ']' that follows a text of matched brackets ends the
\* program: the tree is the tree of the text before that ']', whatever
\* follows it.
C12_CloseTruncates ==
    phase = "parsed" =>
        \A k \in 1..Len(program) :
            (program[k] = "]" /\ bracket_depth(prefix(program, k - 1), 0) = 0) =>
                ast = from_string(prefix(program, k - 1))

\* C12 witness: a run and a closed loop, then an unmatched ']' and an
\* instruction after it
C12_Witness ==
    /\ phase = "parsed"
    /\ ast.tag = "Instructions"
    /\ ast.next.tag = "Loop"
    /\ \E k \in 1..Len(program) :
          /\ program[k] = "]"
          /\ bracket_depth(prefix(program, k - 1), 0) = 0
          /\ \E j \in 1..(k - 1) : program[j] = "["
          /\ \E j \in (k + 1)..Len(program) : program[j] \in InstructionChars

\* no Instructions node of tree, at any depth, has an empty run
RECURSIVE no_empty_run(_)
no_empty_run(tree) ==
    CASE tree.tag = "EOF" -> TRUE
      [] tree.tag = "Loop" -> no_empty_run(tree.body) /\ no_empty_run(tree.next)
      [] tree.tag = "Instructions" -> Len(tree.ops) >= 1 /\ no_empty_run(tree.next)

\* C14 (ParseSpec): the tree AST::from returns holds no Instructions node
\* with an empty run, at the top, in loop bodies or in continuations.
C14_NoEmptyRun ==
    phase \in {"parsed", "shown"} => no_empty_run(ast)

\* C14 witness: `[[]][]`-like text: loops met with an empty run at the top, in
\* a body and in a continuation, and EOF met with an empty run
C14_Witness ==
    /\ phase = "parsed"
    /\ ast.tag = "Loop"
    /\ ast.body.tag = "Loop"
    /\ ast.body.body.tag = "EOF"
    /\ ast.next.tag = "Loop"
    /\ ast.next.next.tag = "EOF"

\* C15 (ParseSpec): from undoes value on every Operation; on the characters
\* of the text, value undoes from on the 7 instruction characters and from
\* answers None on every other character, the brackets included.
C15_CharMapping ==
    /\ \A op \in Operations : from(value(op)) = op
    /\ \A k \in 1..Len(program) :
          IF program[k] \in {">", "<", "+", "-", ".", ",", "#"}
          THEN from(program[k]) \in Operations /\ value(from(program[k])) = program[k]
          ELSE from(program[k]) = "None"

\* C15 witness: a parsed text with both brackets, an unrecognized character
\* and an instruction
C15_Witness ==
    /\ phase = "parsed"
    /\ {"[", "]", Ignored, ","} \subseteq {program[k] : k \in 1..Len(program)}

\* chars without the characters that are neither instructions nor brackets
recognized(chars) ==
    SelectSeq(chars, LAMBDA c : c \in {">", "<", "+", "-", ".", ",", "#", "[", "]"})

\* C18 (ParseSpec): the tree of a text is the tree of the text without its
\* unrecognized characters.
C18_IgnoredCharacters ==
    phase = "parsed" => ast = from_string(recognized(program))

\* C18 witness: unrecognized characters inside a run and inside a loop body
C18_Witness ==
    /\ phase = "parsed"
    /\ Len(program) - Len(recognized(program)) >= 2
    /\ ast.tag = "Instructions"
    /\ Len(ast.ops) >= 2
    /\ ast.next.tag = "Loop"
    /\ \E k \in 2..(Len(program) - 1) :
          /\ program[k] = Ignored
          /\ program[k - 1] = "+"
          /\ program[k + 1] = "+"
    /\ \E k \in 2..(Len(program) - 1) :
          /\ program[k] = Ignored
          /\ program[k - 1] = "["
          /\ program[k + 1] = "]"


\* C17: the step that starts a run of a loop body is taken with the current
\* cell nonzero and starts the body in that very state, on the first test as
\* on every later one; the step that starts the continuation of a loop is
\* taken with the current cell 0 and starts the continuation in that state.
C17_WhileLoop ==
    /\ last.step = "body" =>
          /\ last_cell # 0
          /\ get_current(machine) # 0
          /\ machine = [pointer |-> last.pointer, memory |-> last.memory]
          /\ Len(stack) >= 2
          /\ stack[Len(stack) - 1].ast.tag = "Loop"
          /\ stack[Len(stack) - 1].at = "body"
          /\ top = activation(stack[Len(stack) - 1].ast.body)
    /\ last.step = "exit" =>
          /\ last_cell = 0
          /\ get_current(machine) = 0
          /\ machine = [pointer |-> last.pointer, memory |-> last.memory]
          /\ Len(stack) >= 2
          /\ stack[Len(stack) - 1].ast.tag = "Loop"
          /\ stack[Len(stack) - 1].at = "next"
          /\ top = activation(stack[Len(stack) - 1].ast.next)

\* C17 witness: in `-[-]+` the loop has counted 255 down to 0, test after
\* test, and its continuation has just been started
C17_Witness ==
    /\ program = <<"-", "[", "-", "]", "+">>
    /\ last.step = "exit"
    /\ memory = <<0>>
    /\ top.ast.tag = "Instructions"

\* C19: no step shortens the tape; only a MoveRight lengthens it, by one
\* cell; and the tape is always one cell longer than the largest value the
\* pointer has had.
C19_TapeGrowth ==
    /\ Len(memory) >= Len(last.memory)
    /\ Len(memory) # Len(last.memory) =>
          /\ applied("Move(Right)")
          /\ Len(memory) = Len(last.memory) + 1
    /\ Len(memory) = highest + 1

\* C19 witness: the pointer has come back left of the largest value it had
C19_Witness ==
    /\ applied("Move(Left)")
    /\ highest >= 2
    /\ pointer < highest
    /\ Len(memory) = highest + 1


\* where the newline bytes of standard output stand; the snapshot ends with
\* the newline of println!, so every line ends at one of them
newlines == {k \in 1..Len(stdout) : stdout[k] = 10}

\* the number of bytes of the line that ends at the newline k
line_length(k) ==
    LET earlier == {j \in newlines : j < k}
        start == IF earlier = {} THEN 0
                 ELSE CHOOSE j \in earlier : \A i \in earlier : i <= j
    IN  k - start - 1

\* the rows of the snapshot, each named by the newline that ends it: the
\* lines that hold cells
dump_rows == {k \in newlines : line_length(k) > 0}

\* the snapshot without its newlines: 6 bytes for each cell
dump_cells == SelectSeq(stdout, LAMBDA b : b # 10)

\* the value of an uppercase hex digit in ASCII, -1 for any other byte
hex_value(b) ==
    IF b \in 48..57 THEN b - 48 ELSE IF b \in 65..70 THEN b - 55 ELSE -1

\* every row of the snapshot but the last holds the same number of cells
dump_rows_equal ==
    \A i, j \in dump_rows :
        (\E k \in dump_rows : k > i) /\ (\E k \in dump_rows : k > j) =>
            line_length(i) = line_length(j)

\* every cell of the tape is there, as two uppercase hex digits
dump_hex ==
    /\ Len(dump_cells) = 6 * Len(memory)
    /\ \A k \in 1..Len(memory) :
          /\ hex_value(dump_cells[6 * k - 4]) >= 0
          /\ hex_value(dump_cells[6 * k - 3]) >= 0
          /\ 16 * hex_value(dump_cells[6 * k - 4]) + hex_value(dump_cells[6 * k - 3])
                = memory[k]

\* the cell under the pointer is marked and no other cell is
dump_marked ==
    /\ Len(dump_cells) = 6 * Len(memory)
    /\ \A k \in 1..Len(memory) : (dump_cells[6 * k - 1] = 60) <=> (k = pointer + 1)

\* what does hold of the snapshot: the hex digits and the mark
DumpCellsRendered ==
    phase = "dumped" => dump_hex /\ dump_marked

\* C13 as stated (DumpSpec): in the snapshot of a tape of any length every
\* row but the last holds the same number of cells, every cell is two
\* uppercase hex digits, and the cell under the pointer alone is marked.
C13_DumpRows ==
    phase = "dumped" => dump_rows_equal /\ dump_hex /\ dump_marked


\* the tree the step-by-step parser ends with is the tree of AST_from
FromStepsAgree ==
    phase = "parsed" => ast = from_string(program)

\* tree is built of Instructions, Loop and EOF nodes only
RECURSIVE is_tree(_)
is_tree(tree) ==
    CASE tree.tag = "EOF" -> TRUE
      [] tree.tag = "Loop" -> is_tree(tree.body) /\ is_tree(tree.next)
      [] tree.tag = "Instructions" ->
            (\A k \in 1..Len(tree.ops) : tree.ops[k] \in Operations) /\ is_tree(tree.next)
      [] OTHER -> FALSE

\* the number of '[' in chars
opens(chars) == Cardinality({k \in 1..Len(chars) : chars[k] = "["})

\* C11 (FromSpec): on every text AST::from goes on until it has returned a
\* tree: it is never stuck, it makes at most 1 + 2 * (number of '[') calls of
\* itself and each call gets None from next() at most once, so the steps
\* are bounded; and next() yields each character of the text at most once.
C11_FromTerminates ==
    /\ \A k \in 1..Len(program) : parser.yielded[k] <= 1
    /\ parser.pos \in 1..(Len(program) + 1)
    /\ parser.made <= 1 + 2 * opens(program)
    /\ parser.calls <= Len(program) + parser.made
    /\ Len(parser.frames) <= parser.made
    /\ phase # "parsed" => ENABLED FromNext
    /\ phase = "parsed" => is_tree(ast)

\* C11 witness: a text with an unrecognized character, an unmatched '[' and
\* a ']' has been parsed; next() answered None to more than one call
C11_Witness ==
    /\ phase = "parsed"
    /\ bracket_depth(program, 0) > 0
    /\ {Ignored, "]"} \subseteq {program[k] : k \in 1..Len(program)}
    /\ parser.calls >= Len(program) + 2
    /\ \A k \in 1..Len(program) : parser.yielded[k] = 1


\* the operations of the instruction characters of chars, in order
operations_of(chars) ==
    LET kept == SelectSeq(chars, LAMBDA c : c \in InstructionChars)
    IN  [k \in 1..Len(kept) |-> from(kept[k])]

\* the run before the last character of chars: the operations after the
\* last bracket that precedes it
run_before_last(chars) ==
    LET n == Len(chars)
        brackets == {k \in 1..(n - 1) : chars[k] \in {"[", "]"}}
        after == IF brackets = {} THEN 1
                 ELSE (CHOOSE k \in brackets : \A j \in brackets : j <= k) + 1
    IN  operations_of(SubSeq(chars, after, n - 1))

\* the run before the last character (if any) followed by a Loop of body
\* EOF and continuation EOF
open_at_end(chars) ==
    LET open == [tag |-> "Loop", body |-> [tag |-> "EOF"], next |-> [tag |-> "EOF"]]
    IN  IF run_before_last(chars) = <<>> THEN open
        ELSE [tag |-> "Instructions", ops |-> run_before_last(chars), next |-> open]

\* the '[' that ends the program made the call that met it return the run
\* before it followed by Loop(EOF, EOF); with no bracket before it that
\* is the whole tree
open_at_end_parsed ==
    /\ parser.built[Len(program)] = open_at_end(program)
    /\ (\A k \in 1..(Len(program) - 1) : program[k] \notin {"[", "]"})
            => ast = open_at_end(program)

\* C16 as stated (FromSpec): every program whose last character is a '['
\* parses to the run before it followed by Loop(EOF, EOF).
C16_OpenAtEnd ==
    (phase = "parsed" /\ program # <<>> /\ program[Len(program)] = "[")
        => open_at_end_parsed

\* C16 (FromSpec): a program whose last character is a '[', with no
\* unmatched ']' before it, parses to the run before it followed by
\* Loop(EOF, EOF).
C16_OpenAtEndReached ==
    (/\ phase = "parsed"
     /\ program # <<>>
     /\ program[Len(program)] = "["
     /\ bracket_depth(prefix(program, Len(program) - 1), 0) >= 0)
        => open_at_end_parsed

\* C16 witness: a closed loop, a run, then the '[' that ends the program
C16_Witness ==
    /\ phase = "parsed"
    /\ Len(program) >= 4
    /\ program[Len(program)] = "["
    /\ program[Len(program) - 1] \in InstructionChars
    /\ bracket_depth(prefix(program, Len(program) - 1), 0) = 0
    /\ \E k \in 1..(Len(program) - 1) : program[k] = "]"
    /\ parser.built[Len(program)].tag = "Instructions"
    /\ parser.built[Len(program)].next.tag = "Loop"


\* the run has ended with Ok
run_ended == phase = "run" /\ stack = <<>> /\ ret = "Ok"

\* the activation a only waits for a call to return or has no operation
\* left to apply
unwinding(a) ==
    \/ a.at \in {"next", "eof"}
    \/ a.at = "ops" /\ a.i > Len(a.ast.ops)

\* C20 (Spec): on a program of matched brackets the run of the tree and
\* the reference interpreter, given the same answers to their reads, go
\* together: they have the same pointer, tape and output; the operation the
\* run applies next is the instruction under the program counter and the
\* one it has just applied is the one the interpreter has just executed;
\* the run tests a loop exactly when the counter is on a bracket; one fails
\* when the other does; and the run has ended, or only returns from its
\* calls, exactly when the counter has left the text.
C20_FlatEquivalent ==
    (phase = "run" /\ well_formed(program)) =>
        /\ flat.pointer = pointer
        /\ flat.memory = memory
        /\ flat.stdout = stdout
        /\ (ret = "Err") <=> (flat.res = "Err")
        /\ last.step = "apply" => flat.did = value(last.op)
        /\ last.step \in {"body", "exit"} => flat.did \in {"[", "]"}
        /\ (running /\ top.at = "ops" /\ top.i <= Len(top.ast.ops)) =>
                /\ flat.pc <= Len(program)
                /\ program[flat.pc] = value(top.ast.ops[top.i])
        /\ (running /\ top.at = "cond") =>
                /\ flat.pc <= Len(program)
                /\ program[flat.pc] \in {"[", "]"}
        /\ run_ended => flat.pc = Len(program) + 1
        /\ (flat.pc = Len(program) + 1 /\ flat.res = "none") =>
                /\ ret # "Err"
                /\ \A k \in 1..Len(stack) : unwinding(stack[k])

\* C20 witness: in a program with a loop in a loop the run enters a loop
\* body again as the reference interpreter jumps back from a ']' to behind
\* its '[', both with the same tape
C20_Witness ==
    /\ phase = "run"
    /\ well_formed(program)
    /\ \E k \in 1..(Len(program) - 1) : program[k] = "[" /\ program[k + 1] = "["
    /\ last.step = "body"
    /\ flat.did = "]"
    /\ flat.pc \in 2..Len(program)
    /\ program[flat.pc - 1] = "["
    /\ flat.memory = memory
    /\ get_current(machine) # 0

====
